---- MODULE Spec2Model ----
(***************************************************************************)
(* VisuArXiv: the research-paper-to-video pipeline.                        *)
(*                                                                         *)
(* Spec       : ResearchToAnimationPipeline.process_paper, with the        *)
(*              concurrent scheduler of the generation, narration and      *)
(*              combine stages, the composer and the Supabase cache.       *)
(* SpecCalls  : process_paper called again and again on one bucket, in     *)
(*              sequential mode.                                           *)
(* SpecWorker : the retry loops of ClaudeMCPAnimator.generate_animation    *)
(*              and ClaudeAnimator.generate_animation, one oracle call     *)
(*              per step.                                                  *)
(* SpecIdentity : the cache identity of a paper name, as a function of the *)
(*              name (_get_paper_identifier, _generate_paper_hash).        *)
(* SpecCompose : the durations VideoComposer.combine_video_audio gives one *)
(*              scene, as a function of the clip, the narration and the    *)
(*              pause.  Durations are in tenths of a second.               *)
(*                                                                         *)
(* In Spec a generation worker is the call generate_single(i, scene): it   *)
(* takes a pool thread, runs generate_animation to its end and leaves with *)
(* a clip, with no clip, or with an exception.  Python lists are TLA+      *)
(* sequences: scene k here is scenes[k-1] in the source.                   *)
(***************************************************************************)
EXTENDS Integers, Sequences, FiniteSets, TLC

\* ------------------------------------------------------------------ bounds
MaxScenes == 3      \* most scenes the extraction oracle returns
MaxWorkers == 2     \* largest max_workers passed to process_paper
MaxBlocks == 2      \* most tool_use blocks in one oracle response
MaxName == 3        \* most tokens of a paper name (SpecIdentity)
MaxDuration == 8    \* longest clip and longest narration, in tenths of a second
MaxPause == 6       \* longest section_pause, in tenths of a second
CallScenes == 2     \* most scenes of a call when calls follow one another (SpecCalls)

\* --------------------------------------------------------------- constants
None == -1          \* Python's None where the other values are numbers
NotSet == -2        \* a slot of `[None] * len(scenes)` not yet written
NoPath == <<>>      \* Python's None where the other values are paths or URLs
max_iterations == 5 \* ClaudeMCPAnimator.max_iterations
max_retries == 3    \* ClaudeAnimator.max_retries
last_pause == 5     \* the 0.5 s end_pause of the last scene, in tenths of a second
hold_margin == 1    \* the 0.1 s added to hold_duration, in tenths of a second
error_limit == 1    \* error[:2000]: the length kept of an error text, in units of 2000 characters

VARIABLES
    client,         \* SupabaseVideoCache.client is not None
    store,          \* the bucket: paper_hash -> the objects stored under it
    prev,           \* the previous call: its path, whether it hit, whether it stored
    pc,             \* where the current process_paper call stands
    cfg,            \* the arguments of the current call
    lookup,         \* what check_cache met and returned in this call
    invoked,        \* the collaborators this call has invoked so far
    nscenes,        \* len(scenes) after extraction
    worker,         \* the current stage's pool: task -> queued, running, done, raised
    overtaken,      \* some future completed before one submitted earlier
    results,        \* animation_results: scene -> video_path
    exc,            \* the exception a future re-raised, "" while there is none
    video_paths,    \* the clips handed on, each named by the scene it was rendered for
    audio_paths,    \* the narration tracks, each named by the scene it narrates
    combined_paths, \* the composed segments
    final_video,    \* the composer's output
    outcome,        \* what the call returned or raised
    mcp,            \* one ClaudeMCPAnimator.generate_animation call (SpecWorker)
    ca,             \* one ClaudeAnimator.generate_animation call (SpecWorker)
    calls,          \* what the cache calls, the concat commands and the render tool's
                    \* directory scans of this call did
    seg,            \* one combine_video_audio call and its durations (SpecCompose)
    ident           \* two names of a paper and the identities derived (SpecIdentity)

vars == <<client, store, prev, pc, cfg, lookup, invoked, nscenes, worker,
          overtaken, results, exc, video_paths, audio_paths, combined_paths,
          final_video, outcome, mcp, ca, calls, seg, ident>>

\* ------------------------------------------------------- paper identifiers
\* A path is a sequence of tokens: a letter, a blank, or a whole extension.
\* The file names process_paper is called with.
PdfPaths == { <<"a", ".pdf">>, <<"A", ".abs", ".pdf">>, <<"b", ".pdf">> }

\* The tokens that begin with a dot: what Path.suffix takes for an extension.
IsExtension(tok) == tok \in {".pdf", ".PDF", ".arxiv", ".abs", ".12345"}

\* str.lower() on one token
Lower(tok) ==
    CASE tok = "A" -> "a"
      [] tok = "B" -> "b"
      [] tok = ".PDF" -> ".pdf"
      [] OTHER -> tok

\* str.strip(): blanks off both ends
RECURSIVE StripLeft(_)
StripLeft(s) == IF s # <<>> /\ Head(s) = " " THEN StripLeft(Tail(s)) ELSE s

RECURSIVE StripRight(_)
StripRight(s) ==
    IF s # <<>> /\ s[Len(s)] = " " THEN StripRight(SubSeq(s, 1, Len(s) - 1)) ELSE s

Strip(s) == StripRight(StripLeft(s))

\* normalized[:-len(suffix)] when normalized.endswith(suffix)
RemoveSuffix(s, suffix) ==
    IF s # <<>> /\ s[Len(s)] = suffix THEN SubSeq(s, 1, Len(s) - 1) ELSE s

\* Path(pdf_path).stem: the name up to its last dot, unless the name begins
\* with that dot.
_get_paper_identifier(pdf_path) ==
    LET dots == {k \in 2..Len(pdf_path) : IsExtension(pdf_path[k])}
    IN  IF dots = {} THEN pdf_path
        ELSE SubSeq(pdf_path, 1, (CHOOSE k \in dots : \A j \in dots : j <= k) - 1)

\* The md5 digest is taken to be collision-free: the hash is the normalized
\* identifier itself.
_generate_paper_hash(paper_identifier) ==
    LET normalized == Strip([k \in 1..Len(paper_identifier) |-> Lower(paper_identifier[k])])
    IN  RemoveSuffix(RemoveSuffix(RemoveSuffix(normalized, ".pdf"), ".arxiv"), ".abs")

PaperHash(pdf_path) == _generate_paper_hash(_get_paper_identifier(pdf_path))

Hashes == { PaperHash(p) : p \in PdfPaths }

_get_video_path(paper_hash) == <<"videos", paper_hash, "final_video.mp4">>
_get_metadata_path(paper_hash) == <<"videos", paper_hash, "metadata.json">>

\* ------------------------------------------------------------ the cache
\* The bucket is a set of objects, each a storage path with its content; the
\* content is named by the identifier of the call that uploaded it.
EmptyStore == {}

\* The content stored at path, or None.
Object(b, path) ==
    IF \E o \in b : o.path = path THEN (CHOOSE o \in b : o.path = path).data ELSE NoPath

\* storage.from_(bucket).remove([path])
Remove(b, path) == {o \in b : o.path # path}

\* An upload that adds an object and leaves the one already at the path.
UploadAppend(b, path, data) == b \cup {[path |-> path, data |-> data]}

\* storage.from_(bucket).upload(path, data, file_options={"upsert": "true"})
Upload(b, path, data) == Remove(b, path) \cup {[path |-> path, data |-> data]}

\* What a lookup can meet on the network.
LookupNets == {"ok", "url_error", "head_error", "http_error", "not_200"}

Miss(met) == [hit |-> FALSE, url |-> NoPath, meta |-> NoPath, met |-> met]

\* A lookup that trusts the public URL without the HEAD request.
check_cache_unverified(b, has_client, paper_identifier, net, meta_ok) ==
    LET paper_hash == _generate_paper_hash(paper_identifier)
    IN  IF ~has_client \/ net = "url_error" THEN Miss({net})
        ELSE [hit |-> TRUE, url |-> _get_video_path(paper_hash),
              meta |-> IF meta_ok THEN Object(b, _get_metadata_path(paper_hash))
                       ELSE NoPath,
              met |-> (IF meta_ok THEN {} ELSE {"meta_error"})
                        \cup (IF net = "ok" THEN {} ELSE {net})]

\* check_cache(paper_identifier) against bucket b: net is what the public-URL
\* call and the HEAD request meet, meta_ok whether the metadata download works.
check_cache(b, has_client, paper_identifier, net, meta_ok) ==
    LET paper_hash == _generate_paper_hash(paper_identifier)
        metadata == IF meta_ok THEN Object(b, _get_metadata_path(paper_hash)) ELSE NoPath
        met == IF meta_ok THEN {} ELSE {"meta_error"}
    IN  IF ~has_client THEN Miss({"no_client"})
        ELSE IF net = "url_error" THEN Miss({"url_error"})
        ELSE IF net = "head_error" THEN Miss(met \cup {"head_error"})
        ELSE IF net = "http_error" THEN Miss(met \cup {"http_error"})
        ELSE IF net = "not_200" THEN Miss(met \cup {"not_200"})
        ELSE IF Object(b, _get_video_path(paper_hash)) = NoPath
             THEN Miss(met)                                       \* HTTP 404
        ELSE [hit |-> TRUE, url |-> _get_video_path(paper_hash),
              meta |-> metadata, met |-> met]

\* download_cached_video: the local copy, or None
download_cached_video(has_client, paper_identifier, download_ok) ==
    IF has_client /\ download_ok
    THEN <<"cached", _generate_paper_hash(paper_identifier)>>
    ELSE NoPath

\* ------------------------------- ClaudeMCPAnimator.generate_animation
\* Artifacts, clips and error texts are named by the iteration (attempt) that
\* produced them.
\* warned: a validate_manim call has reported issues or a syntax error;
\* after_warning: a render_manim call has run after that.
\* failure: the last render of the latest iteration, when it failed, with its
\* error text in pieces of 2000 characters; result: what its tool_result says
\* of it; sent: what the latest request carried of the iteration before;
\* prior: the failure that request followed.
NoFailure == [code |-> None, error |-> <<>>]

McpStart == [st |-> "loop", iteration |-> 0, final_code |-> None, video_path |-> None,
             rendered |-> FALSE, render_ok |-> FALSE, last |-> "none",
             warned |-> FALSE, after_warning |-> FALSE,
             failure |-> NoFailure, result |-> NoFailure,
             prior |-> NoFailure, sent |-> NoFailure]

\* One tool_use block, with what the tool does: the three tools, each with its
\* results, a tool name _execute_tool does not know, and a tool call that raises
\* (tool_input without "code", a script that cannot be written).
ToolCalls == {"fetch_manim_docs", "validate_passed", "validate_issues",
              "validate_syntax_error", "render_video", "render_no_file",
              "render_failed", "render_failed_long", "render_timeout",
              "manim_not_found", "unknown_tool", "tool_raises"}

IsRender(call) ==
    call \in {"render_video", "render_no_file", "render_failed", "render_failed_long",
              "render_timeout", "manim_not_found"}

IsValidate(call) ==
    call \in {"validate_passed", "validate_issues", "validate_syntax_error"}

\* What a failing render has to say: manim's stderr or stdout, of 2000
\* characters at most or of more, or the text of the except branch.
ErrorText(call) ==
    CASE call = "render_failed" -> <<"stderr">>
      [] call = "render_failed_long" -> <<"stderr", "more">>
      [] call = "render_timeout" -> <<"timeout">>
      [] call = "manim_not_found" -> <<"not_found">>
      [] OTHER -> <<>>

\* A tool_result that names the failure and leaves its error text out.
RenderResultBare(call) == <<>>

\* The error text in the string _render_manim returns: error[:2000] of a
\* failed run, the whole text of an except branch.
RenderResult(call) ==
    IF call \in {"render_failed", "render_failed_long"}
    THEN SubSeq(ErrorText(call), 1,
                IF Len(ErrorText(call)) <= error_limit THEN Len(ErrorText(call))
                ELSE error_limit)
    ELSE ErrorText(call)

\* "✓" in result
HasCheckMark(call) == call \in {"render_video", "render_no_file", "validate_passed"}

\* re.search(r"Video path: (.+\.mp4)", result)
HasVideoPath(call) == call = "render_video"

\* _validate_manim reports issues or a syntax error
Warns(call) == call \in {"validate_issues", "validate_syntax_error"}

\* _execute_tool returns its text, and the block's result is looked at.
RunTool(w, call, it) ==
    LET ran == [w EXCEPT !.rendered = @ \/ IsRender(call),
                         !.warned = @ \/ Warns(call),
                         !.after_warning = @ \/ (IsRender(call) /\ w.warned)]
    IN  IF IsRender(call) /\ HasCheckMark(call)
        THEN [ran EXCEPT !.final_code = it, !.render_ok = TRUE,
                         !.video_path = IF HasVideoPath(call) THEN it ELSE @,
                         !.failure = NoFailure, !.result = NoFailure]
        ELSE IF IsRender(call)
        THEN [ran EXCEPT !.failure = [code |-> it, error |-> ErrorText(call)],
                         !.result = [code |-> it, error |-> RenderResult(call)]]
        ELSE ran

\* A loop that a reported syntax error ends.
ExecuteBlockStrict(w, call, it) ==
    IF call \in {"tool_raises", "validate_syntax_error"} THEN [w EXCEPT !.st = "raised"]
    ELSE RunTool(w, call, it)

\* The body of `for block in response.content` for one tool_use block.
ExecuteBlock(w, call, it) ==
    IF call = "tool_raises" THEN [w EXCEPT !.st = "raised"]
    ELSE RunTool(w, call, it)

RECURSIVE RunBlocks(_, _, _)
RunBlocks(w, blocks, it) ==
    IF blocks = <<>> \/ w.st = "raised" THEN w
    ELSE RunBlocks(ExecuteBlock(w, Head(blocks), it), Tail(blocks), it)

\* client.messages.create(messages=messages) of iteration it: the messages end
\* with the tool results of the iteration before.
McpRequest(w, it) ==
    [w EXCEPT !.iteration = it, !.sent = w.result, !.prior = w.failure,
              !.failure = NoFailure, !.result = NoFailure]

\* A loop that gives up one iteration early.
McpExhaustedEarly(n) == n >= max_iterations - 1

\* `for iteration in range(self.max_iterations)` is over after n iterations
McpExhausted(n) == n >= max_iterations

BlockLists == UNION { [1..n -> ToolCalls] : n \in 1..MaxBlocks }

\* The oracle answers with tool_use blocks: run them, stop on a clip.
McpToolUse ==
    /\ mcp.st = "loop"
    /\ \E blocks \in BlockLists :
          LET it == mcp.iteration + 1
              w == RunBlocks([McpRequest(mcp, it) EXCEPT !.last = "tool_use"], blocks, it)
          IN  mcp' = IF w.st = "raised" THEN w
                     ELSE IF w.video_path # None \/ McpExhausted(it)
                          THEN [w EXCEPT !.st = "returned"]
                     ELSE w
    /\ UNCHANGED <<ident, calls, seg, ca, client, store, prev, pc, cfg, lookup, invoked, nscenes, worker,
                   overtaken, results, exc, video_paths, audio_paths, combined_paths,
                   final_video, outcome>>

\* The oracle answers without a tool request: keep its code block, if any, and
\* leave the loop.
McpText ==
    /\ mcp.st = "loop"
    /\ \E has_code \in BOOLEAN :
          LET it == mcp.iteration + 1
          IN  mcp' = [McpRequest(mcp, it) EXCEPT !.last = "text", !.st = "returned",
                                 !.final_code = IF has_code THEN it ELSE @]
    /\ UNCHANGED <<ident, calls, seg, ca, client, store, prev, pc, cfg, lookup, invoked, nscenes, worker,
                   overtaken, results, exc, video_paths, audio_paths, combined_paths,
                   final_video, outcome>>

\* client.messages.create raises: the exception leaves generate_animation.
McpOracleRaises ==
    /\ mcp.st = "loop"
    /\ mcp' = [McpRequest(mcp, mcp.iteration + 1) EXCEPT !.last = "raise", !.st = "raised"]
    /\ UNCHANGED <<ident, calls, seg, ca, client, store, prev, pc, cfg, lookup, invoked, nscenes, worker,
                   overtaken, results, exc, video_paths, audio_paths, combined_paths,
                   final_video, outcome>>

\* ---------------------------------- ClaudeAnimator.generate_animation
\* sent: the code and the error text put into the latest prompt (None in the
\* first, generation prompt).
CaStart == [st |-> "loop", attempt |-> 0, code |-> None, video_path |-> None,
            last_error |-> None, rendered |-> FALSE, render_ok |-> FALSE,
            sent |-> [code |-> None, error |-> None]]

\* What one attempt's oracle call and render do.
CaAttempts == {"oracle_raises", "no_code", "render_video", "render_path_unknown",
               "no_scene_name", "render_failed", "render_timeout", "manim_not_found"}

\* A loop that gives up one attempt early.
CaExhaustedEarly(n) == n >= max_retries - 1

\* A loop that runs one attempt more than max_retries.
CaExhaustedLate(n) == n > max_retries

\* `for attempt in range(self.max_retries)` is over after n attempts
CaExhausted(n) == n >= max_retries

\* _build_correction_prompt(code, last_error), or the generation prompt
CaPrompt(w) ==
    IF w.attempt = 0 THEN [code |-> None, error |-> None]
    ELSE [code |-> w.code, error |-> w.last_error]

CaAttempt ==
    /\ ca.st = "loop"
    /\ \E does \in CaAttempts :
          LET n == ca.attempt + 1
              asked == [ca EXCEPT !.attempt = n, !.sent = CaPrompt(ca)]
              end(w) == IF CaExhausted(n) THEN [w EXCEPT !.st = "returned"] ELSE w
          IN  ca' =
                CASE does = "oracle_raises" -> [asked EXCEPT !.st = "raised"]
                  [] does = "no_code" -> end([asked EXCEPT !.code = None])
                  [] does \in {"render_video", "render_path_unknown"} ->
                       [asked EXCEPT !.code = n, !.video_path = n, !.rendered = TRUE,
                                     !.render_ok = TRUE, !.st = "returned"]
                  [] does = "no_scene_name" ->
                       end([asked EXCEPT !.code = n, !.last_error = n])
                  [] OTHER ->
                       end([asked EXCEPT !.code = n, !.last_error = n, !.rendered = TRUE])
    /\ UNCHANGED <<ident, calls, seg, mcp, client, store, prev, pc, cfg, lookup, invoked, nscenes, worker,
                   overtaken, results, exc, video_paths, audio_paths, combined_paths,
                   final_video, outcome>>

\* ------------------------------------------------- process_paper: set-up
NoCfg == [pdf_path |-> NoPath, use_cache |-> FALSE, concurrent_generation |-> FALSE,
          include_voiceover |-> FALSE, max_workers |-> 1]

NoLookup == [hit |-> FALSE, url |-> NoPath, meta |-> NoPath, met |-> {"not_run"}]

NoPrev == [path |-> NoPath, cached |-> FALSE, stored |-> FALSE]

NoVideo == [segments |-> <<>>, how |-> "none", tried |-> <<>>, normalizing |-> FALSE]

\* What analyze_paper and the cache calls returned, which concat commands
\* stitch_videos ran and which file each render tool call found (clips),
\* before any of them is made.
NoCalls == [local_cached |-> NoPath, upload |-> [success |-> FALSE, url |-> NoPath],
            tried |-> <<>>, normalizing |-> FALSE, extracted |-> "none",
            clips |-> <<>>]

\* No combine_video_audio call yet.
NoSeg == [st |-> "none"]

\* No identity derived yet.
NoIdent == [st |-> "none"]

\* The dict process_paper returns; kind "raised" is an exception leaving it.
NoOutcome == [kind |-> "none", success |-> FALSE, cached |-> FALSE, error |-> "",
              final_video |-> NoPath, video_url |-> NoPath, total_scenes |-> None,
              successful_renders |-> None, failed_renders |-> None]

Return(o) == outcome' = o /\ pc' = "done"

\* An exception turned into the result dict of a run where nothing rendered.
RaiseAsGenerationFailed(e) ==
    Return([NoOutcome EXCEPT !.kind = "failed", !.error = "Animation generation failed"])

Raise(e) == Return([NoOutcome EXCEPT !.kind = "raised", !.error = e])

paper_identifier == _get_paper_identifier(cfg.pdf_path)

\* The bucket before the call: empty, or holding the video and metadata an
\* earlier process stored for the first paper.
InitialStores ==
    { EmptyStore,
      Upload(Upload(EmptyStore, _get_video_path(PaperHash(<<"a", ".pdf">>)),
                    <<"earlier">>),
             _get_metadata_path(PaperHash(<<"a", ".pdf">>)), <<"earlier">>) }

RunInit ==
    /\ prev = NoPrev
    /\ pc = "idle"
    /\ cfg = NoCfg
    /\ lookup = NoLookup
    /\ invoked = {}
    /\ nscenes = 0
    /\ worker = <<>>
    /\ overtaken = FALSE
    /\ results = <<>>
    /\ exc = ""
    /\ video_paths = <<>>
    /\ audio_paths = <<>>
    /\ combined_paths = <<>>
    /\ final_video = NoVideo
    /\ outcome = NoOutcome
    /\ mcp = McpStart
    /\ ca = CaStart
    /\ calls = NoCalls
    /\ seg = NoSeg
    /\ ident = NoIdent

Init ==
    /\ client \in BOOLEAN
    /\ store \in InitialStores
    /\ RunInit

\* process_paper is called: max_workers is read in concurrent mode only.
StartRun(modes) ==
    /\ pc = "idle"
    /\ \E path \in PdfPaths, use_cache \in BOOLEAN, concurrent \in modes,
          voice \in BOOLEAN, w \in 1..MaxWorkers :
          /\ (~concurrent => w = 1)
          /\ cfg' = [pdf_path |-> path, use_cache |-> use_cache,
                     concurrent_generation |-> concurrent,
                     include_voiceover |-> voice, max_workers |-> w]
          /\ pc' = IF use_cache THEN "check" ELSE "extract"
    /\ UNCHANGED <<ident, calls, seg, mcp, ca, client, store, prev, lookup, invoked, nscenes, worker, overtaken,
                   results, exc, video_paths, audio_paths, combined_paths,
                   final_video, outcome>>

\* A result that names the local copy even when there is none.
CachedFinalVideoLocal(local_cached, cached_url) == local_cached

\* "final_video": str(local_cached) if local_cached else cached_url
CachedFinalVideo(local_cached, cached_url) ==
    IF local_cached # NoPath THEN local_cached ELSE cached_url

\* Step 0: check_cache, and on a hit download_cached_video and return.
CheckCache ==
    /\ pc = "check"
    /\ \E net \in LookupNets, meta_ok \in BOOLEAN, download_ok \in BOOLEAN :
          LET found == check_cache(store, client, paper_identifier, net, meta_ok)
              local_cached == download_cached_video(client, paper_identifier, download_ok)
          IN  /\ lookup' = found
              /\ IF found.hit /\ found.url # NoPath
                 THEN /\ invoked' = invoked \cup {"check_cache", "download"}
                      /\ calls' = [calls EXCEPT !.local_cached = local_cached]
                      /\ Return([NoOutcome EXCEPT
                             !.kind = "cached", !.success = TRUE, !.cached = TRUE,
                             !.final_video = CachedFinalVideo(local_cached, found.url),
                             !.video_url = found.url])
                 ELSE /\ invoked' = invoked \cup {"check_cache"}
                      /\ pc' = "extract"
                      /\ UNCHANGED <<outcome, calls>>
    /\ UNCHANGED <<ident, seg, mcp, ca, client, store, prev, cfg, nscenes, worker, overtaken, results, exc,
                   video_paths, audio_paths, combined_paths, final_video>>

\* ------------------------------------------------------ the worker pools
\* ThreadPoolExecutor(max_workers): every task is submitted at once, a free
\* thread takes the task submitted first, tasks end in any order.
Submitted(n) == [k \in 1..n |-> "queued"]
EmptySlots(n) == [k \in 1..n |-> NotSet]

Queued == {k \in DOMAIN worker : worker[k] = "queued"}
Running == {k \in DOMAIN worker : worker[k] = "running"}
AllEnded == \A k \in DOMAIN worker : worker[k] \in {"done", "raised"}

\* A pool that starts a thread for every submitted task.
ThreadAlwaysFree == TRUE

\* Whether a pool thread is free to take another task.
ThreadFree == Cardinality(Running) < cfg.max_workers

\* A pool that runs again a task that has ended.
PoolRestart(k) ==
    /\ k \in DOMAIN worker
    /\ worker[k] \in {"queued", "done"}
    /\ ThreadFree
    /\ worker' = [worker EXCEPT ![k] = "running"]

PoolStart(k) ==
    /\ k \in Queued
    /\ \A j \in Queued : k <= j
    /\ ThreadFree
    /\ worker' = [worker EXCEPT ![k] = "running"]

\* Task k ends: ended is "done" or "raised".
PoolEnd(k, ended) ==
    /\ k \in Running
    /\ worker' = [worker EXCEPT ![k] = ended]
    /\ overtaken' = (overtaken \/ \E j \in DOMAIN worker :
                                     j < k /\ worker[j] \in {"queued", "running"})

\* results.append(value) in the as_completed loop: the slot is the rank of
\* the completion, not the scene index.
CollectAsCompleted(slots, index, value) ==
    IF worker = <<>> THEN [slots EXCEPT ![index] = value]
    ELSE [slots EXCEPT ![Cardinality({j \in DOMAIN worker :
                                         worker[j] \in {"done", "raised"}}) + 1] = value]

\* A completed future whose result is dropped.
CollectNothing(slots, index, value) == slots

\* results[index] = value, in the `for future in as_completed(futures)` loop
Collect(slots, index, value) == [slots EXCEPT ![index] = value]

\* ------------------------------------------------- files of the workers
\* f"{scene_index:02d}"
Format02d(i) ==
    IF i < 100 THEN <<i \div 10, i % 10>>
    ELSE <<i \div 100, (i \div 10) % 10, i % 10>>

File(dir, stem, suffix) == [dir |-> dir, stem |-> stem, suffix |-> suffix]

\* A script path that leaves the scene index out.
script_path_shared(scene_index) == File(<<"output">>, <<"scene_">>, ".py")

\* _render_manim: self.output_dir / f"scene_{scene_index:02d}.py"
script_path(scene_index) ==
    File(<<"output">>, <<"scene_">> \o Format02d(scene_index), ".py")

\* manim's output for that script: media/videos/<stem of the script>/
media_dir(scene_index) ==
    File(<<"output", "media", "videos">>, script_path(scene_index).stem, "/")

\* generate_voiceover: self.output_dir / f"scene_{scene_index:02d}.mp3"
voiceover_path(scene_index) ==
    File(<<"output", "audio">>, <<"scene_">> \o Format02d(scene_index), ".mp3")

\* combine_video_audio: output_path and the two temporary files beside it
combined_path(scene_index) ==
    File(<<"output", "combined">>,
         <<"scene_">> \o Format02d(scene_index) \o <<"_combined">>, ".mp4")
temp_extended(scene_index) ==
    [combined_path(scene_index) EXCEPT !.suffix = ".extended.mp4"]
temp_audio(scene_index) ==
    [combined_path(scene_index) EXCEPT !.suffix = ".padded.aac"]

\* The paths task k of the stage under way writes: the tasks are submitted
\* with the indices 0..n-1 of the stage's list.
Writes(k) ==
    CASE pc = "generate" -> {script_path(k - 1), media_dir(k - 1)}
      [] pc = "narrate" -> {voiceover_path(k - 1)}
      [] pc = "combine" -> {combined_path(k - 1), temp_extended(k - 1), temp_audio(k - 1)}
      [] OTHER -> {}

\* --------------------------------------------- Step 1: analyze the paper
ExtractionOutcomes == {"raise", "error", "no_scenes", "scenes"}

\* A test that lets research data without scenes through.
HasScenesUnlessError(got) == got # "error"

\* not ("error" in research_data or not research_data.get("scenes"))
HasScenes(got) == got = "scenes"

\* most: the most scenes the oracle may return.
Extract(most) ==
    /\ pc = "extract"
    /\ invoked' = invoked \cup {"analyze_paper"}
    /\ \E got \in ExtractionOutcomes, n \in 1..most :
          /\ got # "scenes" => n = 1
          /\ calls' = [calls EXCEPT !.extracted = got,
                                    !.clips = IF HasScenes(got) /\ cfg.concurrent_generation
                                              THEN EmptySlots(n) ELSE <<>>]
          /\ IF got = "raise"
             THEN /\ Raise("analyze_paper")
                  /\ UNCHANGED <<nscenes, worker, results>>
             ELSE IF ~HasScenes(got)
             THEN /\ Return([NoOutcome EXCEPT !.kind = "failed",
                                              !.error = "Research extraction failed"])
                  /\ UNCHANGED <<nscenes, worker, results>>
             ELSE /\ nscenes' = n
                  /\ pc' = "generate"
                  /\ IF cfg.concurrent_generation
                     THEN worker' = Submitted(n) /\ results' = EmptySlots(n)
                     ELSE worker' = <<>> /\ results' = <<>>
                  /\ UNCHANGED outcome
    /\ lookup' = NoLookup
    /\ UNCHANGED <<ident, seg, mcp, ca, client, store, prev, cfg, overtaken, exc, video_paths,
                   audio_paths, combined_paths, final_video>>

\* ------------------------------------------- Step 2: generate animations
\* How generate_animation(scene, index) ends: with a clip, with video_path
\* None, or with an exception of the oracle call or of a tool.
GenerationEnds == {"clip", "no_clip", "raise"}

\* The video_path of scene k's result: the clip rendered for scene k, or None.
VideoPath(k, ends) == IF ends = "clip" THEN k ELSE None

\* sorted(output_dir.rglob("*.mp4"), key=mtime, reverse=True)[0] after the
\* render of scene k: the scenes whose render may have written the newest mp4
\* file under the shared output directory.  That is scene k's own render, or a
\* render running in another pool thread and writing its file between the end
\* of scene k's manim process and the directory scan.
NewestMp4(k) == {k} \cup (Running \ {k})

\* The file that the video_path of a result names: mp4, the scene whose render
\* wrote it, or None.
ClipFile(ends, mp4) == IF ends = "clip" THEN mp4 ELSE None

GenStart(k) ==
    /\ pc = "generate"
    /\ PoolStart(k)
    /\ invoked' = invoked \cup {"generate"}
    /\ UNCHANGED <<ident, calls, seg, mcp, ca, client, store, prev, pc, cfg, lookup, nscenes, overtaken, results,
                   exc, video_paths, audio_paths, combined_paths, final_video, outcome>>

\* generate_single(k) ends and, unless an earlier future.result() has raised,
\* the as_completed loop takes its result.
GenFinish(k) ==
    /\ pc = "generate"
    /\ \E ends \in GenerationEnds :
          /\ PoolEnd(k, IF ends = "raise" THEN "raised" ELSE "done")
          /\ IF exc # "" THEN UNCHANGED <<exc, results, calls>>
             ELSE IF ends = "raise"
                  THEN exc' = "generate_animation" /\ UNCHANGED <<results, calls>>
             ELSE /\ results' = Collect(results, k, VideoPath(k, ends))
                  /\ \E mp4 \in NewestMp4(k) :
                        calls' = [calls EXCEPT !.clips[k] = ClipFile(ends, mp4)]
                  /\ UNCHANGED exc
    /\ UNCHANGED <<ident, seg, mcp, ca, client, store, prev, pc, cfg, lookup, invoked, nscenes,
                   video_paths, audio_paths, combined_paths, final_video, outcome>>

\* concurrent_generation=False: the for loop of process_paper, one scene a step.
GenSequential ==
    /\ pc = "generate"
    /\ ~cfg.concurrent_generation
    /\ Len(results) < nscenes
    /\ invoked' = invoked \cup {"generate"}
    /\ \E ends \in GenerationEnds :
          IF ends = "raise"
          THEN Raise("generate_animation") /\ UNCHANGED <<results, calls>>
          ELSE /\ results' = Append(results, VideoPath(Len(results) + 1, ends))
               /\ \E mp4 \in NewestMp4(Len(results) + 1) :
                     calls' = [calls EXCEPT !.clips = Append(@, ClipFile(ends, mp4))]
               /\ UNCHANGED <<pc, outcome>>
    /\ UNCHANGED <<ident, seg, mcp, ca, client, store, prev, cfg, lookup, nscenes, worker, overtaken, exc,
                   video_paths, audio_paths, combined_paths, final_video>>

\* The results handed on without the filter.
VideoPathsUnfiltered(animation_results) == animation_results

\* [vp for _, vp in animation_results if vp is not None]
VideoPathsOf(animation_results) == SelectSeq(animation_results, LAMBDA vp : vp # None)

\* Every scene narrated, rendered or not.
all_scenes(animation_results) == [k \in 1..Len(animation_results) |-> k]

\* [scenes[i] for i, (_, vp) in enumerate(animation_results) if vp]
successful_scenes(animation_results) ==
    LET Kept(k) == animation_results[k] # None
    IN  SelectSeq([k \in 1..Len(animation_results) |-> k], Kept)

\* A stage left without waiting for its tasks.
StageOverEarly(done, n) == TRUE

\* The stage's tasks are over: the pool's `with` block has been left (it waits
\* for every submitted task), or the sequential loop has run n times.
StageOver(done, n) ==
    IF cfg.concurrent_generation /\ worker # <<>> THEN AllEnded ELSE done = n

\* A composed segment: the clip and the narration muxed into it.
NoSegment == [video |-> NotSet, audio |-> NotSet]
NoSegments(n) == [k \in 1..n |-> NoSegment]
FilledSegments(slots) == Cardinality({k \in DOMAIN slots : slots[k] # NoSegment})

\* The generation stage is over: filter the clips, then go on to the narration
\* (include_voiceover) or straight to stitch_videos.  What the render tool
\* calls found is a record of the stage and ends with it.
GenJoin ==
    /\ pc = "generate"
    /\ StageOver(Len(results), nscenes)
    /\ calls' = [calls EXCEPT !.clips = <<>>]
    /\ IF exc # ""
       THEN /\ Raise(exc)
            /\ UNCHANGED <<video_paths, audio_paths, combined_paths, invoked, worker>>
       ELSE LET paths == VideoPathsOf(results)
                narrated == successful_scenes(results)
            IN  IF paths = <<>>
                THEN /\ Return([NoOutcome EXCEPT !.kind = "failed",
                                   !.error = "Animation generation failed"])
                     /\ UNCHANGED <<video_paths, audio_paths, combined_paths,
                                    invoked, worker>>
                ELSE /\ video_paths' = paths
                     /\ UNCHANGED outcome
                     /\ IF cfg.include_voiceover
                        THEN /\ pc' = "narrate"
                             /\ invoked' = invoked \cup {"voiceover"}
                             /\ IF cfg.concurrent_generation
                                THEN /\ worker' = Submitted(Len(narrated))
                                     /\ audio_paths' = EmptySlots(Len(narrated))
                                ELSE /\ worker' = <<>>
                                     /\ audio_paths' = <<>>
                             /\ UNCHANGED combined_paths
                        ELSE /\ pc' = "stitch"
                             /\ combined_paths' =
                                  [k \in 1..Len(paths) |-> [video |-> paths[k], audio |-> None]]
                             /\ worker' = <<>>
                             /\ UNCHANGED <<audio_paths, invoked>>
    /\ UNCHANGED <<ident, seg, mcp, ca, client, store, prev, cfg, lookup, nscenes, overtaken, results, exc,
                   final_video>>

\* ------------------------------------------- Step 3: generate voiceovers
\* generate_voiceover returns the audio path or raises; it has no failed result.
NarrationEnds == {"audio", "raise"}

\* The track of the k-th scene of the paper, whether it has a clip or not.
AudioPathOfScene(k) == k

\* The track written for position k of the list handed to generate_all_voiceovers.
AudioPath(k) == successful_scenes(results)[k]

NarrStart(k) ==
    /\ pc = "narrate"
    /\ PoolStart(k)
    /\ UNCHANGED <<ident, calls, seg, mcp, ca, client, store, prev, pc, cfg, lookup, invoked, nscenes, overtaken,
                   results, exc, video_paths, audio_paths, combined_paths,
                   final_video, outcome>>

NarrFinish(k) ==
    /\ pc = "narrate"
    /\ \E ends \in NarrationEnds :
          /\ PoolEnd(k, IF ends = "raise" THEN "raised" ELSE "done")
          /\ IF exc # "" THEN UNCHANGED <<exc, audio_paths>>
             ELSE IF ends = "raise"
                  THEN exc' = "generate_voiceover" /\ UNCHANGED audio_paths
             ELSE audio_paths' = Collect(audio_paths, k, AudioPath(k)) /\ UNCHANGED exc
    /\ UNCHANGED <<ident, calls, seg, mcp, ca, client, store, prev, pc, cfg, lookup, invoked, nscenes, results,
                   video_paths, combined_paths, final_video, outcome>>

NarrSequential ==
    /\ pc = "narrate"
    /\ ~cfg.concurrent_generation
    /\ Len(audio_paths) < Len(successful_scenes(results))
    /\ \E ends \in NarrationEnds :
          IF ends = "raise"
          THEN Raise("generate_voiceover") /\ UNCHANGED audio_paths
          ELSE /\ audio_paths' = Append(audio_paths, AudioPath(Len(audio_paths) + 1))
               /\ UNCHANGED <<pc, outcome>>
    /\ UNCHANGED <<ident, calls, seg, mcp, ca, client, store, prev, cfg, lookup, invoked, nscenes, worker,
                   overtaken, results, exc, video_paths, combined_paths, final_video>>

\* The narration stage is over: compose_full_video is entered.
NarrJoin ==
    /\ pc = "narrate"
    /\ StageOver(Len(audio_paths), Len(successful_scenes(results)))
    /\ IF exc # ""
       THEN /\ Raise(exc)
            /\ UNCHANGED <<invoked, worker, combined_paths>>
       ELSE /\ invoked' = invoked \cup {"compose"}
            /\ IF Len(video_paths) # Len(audio_paths)
               THEN /\ Raise("ValueError")
                    /\ UNCHANGED <<worker, combined_paths>>
               ELSE /\ pc' = "combine"
                    /\ combined_paths' = NoSegments(Len(video_paths))
                    /\ worker' = IF cfg.concurrent_generation /\ Len(video_paths) > 1
                                 THEN Submitted(Len(video_paths)) ELSE <<>>
                    /\ UNCHANGED outcome
    /\ UNCHANGED <<ident, calls, seg, mcp, ca, client, store, prev, cfg, lookup, nscenes, overtaken, results, exc,
                   video_paths, audio_paths, final_video>>

\* ------------------------------------------------ Step 4: compose, stitch
\* combine_video_audio probes and runs ffmpeg with check=True: a segment or
\* a CalledProcessError.
CombineEnds == {"segment", "raise"}

\* combine_single(index): video_paths[index] muxed with audio_paths[index]
combine_single(index) == [video |-> video_paths[index], audio |-> audio_paths[index]]

CombStart(k) ==
    /\ pc = "combine"
    /\ PoolStart(k)
    /\ UNCHANGED <<ident, calls, seg, mcp, ca, client, store, prev, pc, cfg, lookup, invoked, nscenes, overtaken,
                   results, exc, video_paths, audio_paths, combined_paths,
                   final_video, outcome>>

CombFinish(k) ==
    /\ pc = "combine"
    /\ \E ends \in CombineEnds :
          /\ PoolEnd(k, IF ends = "raise" THEN "raised" ELSE "done")
          /\ IF exc # "" THEN UNCHANGED <<exc, combined_paths>>
             ELSE IF ends = "raise"
                  THEN exc' = "combine_video_audio" /\ UNCHANGED combined_paths
             ELSE /\ combined_paths' = Collect(combined_paths, k, combine_single(k))
                  /\ UNCHANGED exc
    /\ UNCHANGED <<ident, calls, seg, mcp, ca, client, store, prev, pc, cfg, lookup, invoked, nscenes, results,
                   video_paths, audio_paths, final_video, outcome>>

\* `for i in range(len(video_paths))`: not concurrent, or a single scene
CombSequential ==
    /\ pc = "combine"
    /\ worker = <<>>
    /\ FilledSegments(combined_paths) < Len(video_paths)
    /\ \E ends \in CombineEnds :
          LET i == FilledSegments(combined_paths) + 1
          IN  IF ends = "raise"
              THEN Raise("combine_video_audio") /\ UNCHANGED combined_paths
              ELSE /\ combined_paths' = Collect(combined_paths, i, combine_single(i))
                   /\ UNCHANGED <<pc, outcome>>
    /\ UNCHANGED <<ident, calls, seg, mcp, ca, client, store, prev, cfg, lookup, invoked, nscenes, worker,
                   overtaken, results, exc, video_paths, audio_paths, final_video>>

\* Every segment is combined: compose_full_video calls stitch_videos.
CombJoin ==
    /\ pc = "combine"
    /\ IF worker # <<>> THEN AllEnded
       ELSE FilledSegments(combined_paths) = Len(video_paths)
    /\ IF exc # ""
       THEN Raise(exc) /\ UNCHANGED worker
       ELSE pc' = "stitch" /\ worker' = <<>> /\ UNCHANGED outcome
    /\ UNCHANGED <<ident, calls, seg, mcp, ca, client, store, prev, cfg, lookup, invoked, nscenes, overtaken,
                   results, exc, video_paths, audio_paths, combined_paths, final_video>>

\* How stitching two or more segments goes: a normalization fails; the lossless
\* concat works; it fails and the re-encoding works; both fail.
StitchEnds == {"normalize_fails", "concat", "reencode", "both_fail"}

\* stitch_videos that gives up when the lossless concat fails.
stitch_videos_no_fallback(paths, ends) ==
    LET valid == SelectSeq(paths, LAMBDA p : p # NoSegment)
    IN  IF valid = <<>> THEN [NoVideo EXCEPT !.how = "raise"]
        ELSE IF Len(valid) = 1
        THEN [segments |-> valid, how |-> "copy", tried |-> <<>>, normalizing |-> FALSE]
        ELSE CASE ends = "normalize_fails" ->
                    [NoVideo EXCEPT !.how = "raise", !.normalizing = TRUE]
               [] ends = "concat" ->
                    [segments |-> valid, how |-> "concat", tried |-> <<"concat_ok">>,
                     normalizing |-> TRUE]
               [] OTHER -> [NoVideo EXCEPT !.how = "raise", !.tried = <<"concat_failed">>,
                                            !.normalizing = TRUE]

\* stitch_videos that normalizes and concatenates a single segment too.
stitch_videos_no_shortcut(paths, ends) ==
    LET valid == SelectSeq(paths, LAMBDA p : p # NoSegment)
    IN  IF valid = <<>> THEN [NoVideo EXCEPT !.how = "raise"]
        ELSE CASE ends = "normalize_fails" ->
                    [NoVideo EXCEPT !.how = "raise", !.normalizing = TRUE]
               [] ends = "concat" ->
                    [segments |-> valid, how |-> "concat", tried |-> <<"concat_ok">>,
                     normalizing |-> TRUE]
               [] ends = "reencode" ->
                    [segments |-> valid, how |-> "reencode",
                     tried |-> <<"concat_failed", "reencode_ok">>, normalizing |-> TRUE]
               [] ends = "both_fail" ->
                    [NoVideo EXCEPT !.how = "raise", !.normalizing = TRUE,
                                    !.tried = <<"concat_failed", "reencode_failed">>]

\* stitch_videos(video_paths): the final video, or "raise", with whether the
\* segments were normalized and the concat commands it ran and how each ended.
stitch_videos(paths, ends) ==
    LET valid == SelectSeq(paths, LAMBDA p : p # NoSegment)
    IN  IF valid = <<>> THEN [NoVideo EXCEPT !.how = "raise"]
        ELSE IF Len(valid) = 1
        THEN [segments |-> valid, how |-> "copy", tried |-> <<>>, normalizing |-> FALSE]
        ELSE CASE ends = "normalize_fails" ->
                    [NoVideo EXCEPT !.how = "raise", !.normalizing = TRUE]
               [] ends = "concat" ->
                    [segments |-> valid, how |-> "concat", tried |-> <<"concat_ok">>,
                     normalizing |-> TRUE]
               [] ends = "reencode" ->
                    [segments |-> valid, how |-> "reencode",
                     tried |-> <<"concat_failed", "reencode_ok">>, normalizing |-> TRUE]
               [] ends = "both_fail" ->
                    [NoVideo EXCEPT !.how = "raise", !.normalizing = TRUE,
                                    !.tried = <<"concat_failed", "reencode_failed">>]

Stitch ==
    /\ pc = "stitch"
    /\ invoked' = invoked \cup {"stitch"}
    /\ \E ends \in StitchEnds :
          LET made == stitch_videos(combined_paths, ends)
          IN  /\ calls' = [calls EXCEPT !.tried = made.tried,
                                          !.normalizing = made.normalizing]
              /\ IF made.how = "raise"
                 THEN Raise("stitch_videos") /\ UNCHANGED final_video
                 ELSE final_video' = made /\ pc' = "store" /\ UNCHANGED outcome
    /\ UNCHANGED <<ident, seg, mcp, ca, client, store, prev, cfg, lookup, nscenes, worker, overtaken,
                   results, exc, video_paths, audio_paths, combined_paths>>

\* --------------------------------------- Step 5: cache the video, return
\* What the five storage calls of upload_video meet: remove and upload of the
\* video, remove and upload of the metadata, get_public_url.
UploadNets == [rm_video : BOOLEAN, up_video : BOOLEAN, rm_meta : BOOLEAN,
               up_meta : BOOLEAN, url : BOOLEAN]

\* An upload whose remove call comes after the upload call and takes the new
\* video out of the bucket again.
upload_video_then_remove(b, has_client, identifier, net) ==
    LET h == _generate_paper_hash(identifier)
        gone == Remove(Remove(b, _get_video_path(h)), _get_metadata_path(h))
    IN  IF has_client /\ net.up_video /\ net.up_meta /\ net.url
        THEN [bucket |-> gone, success |-> TRUE, url |-> _get_video_path(h)]
        ELSE [bucket |-> gone, success |-> FALSE, url |-> NoPath]

\* upload_video(video_path, identifier, metadata) on bucket b: the bucket
\* afterwards, the success flag and the URL.  A failed remove is swallowed; a
\* failed upload or URL call ends the method with (False, None).
upload_video(b, has_client, identifier, net) ==
    LET h == _generate_paper_hash(identifier)
        b1 == IF net.rm_video THEN Remove(b, _get_video_path(h)) ELSE b
        b2 == Upload(b1, _get_video_path(h), identifier)
        b3 == IF net.rm_meta THEN Remove(b2, _get_metadata_path(h)) ELSE b2
        b4 == Upload(b3, _get_metadata_path(h), identifier)
        Failed(after) == [bucket |-> after, success |-> FALSE, url |-> NoPath]
    IN  IF ~has_client THEN Failed(b)
        ELSE IF ~net.up_video THEN Failed(b1)
        ELSE IF ~net.up_meta THEN Failed(b3)
        ELSE IF ~net.url THEN Failed(b4)
        ELSE [bucket |-> b4, success |-> TRUE, url |-> _get_video_path(h)]

\* A summary that counts every result as a successful render.
_create_summary_uncounted(animation_results, video_url) ==
    [NoOutcome EXCEPT !.kind = "summary", !.success = TRUE, !.cached = FALSE,
                      !.total_scenes = Len(animation_results),
                      !.successful_renders = Len(animation_results),
                      !.failed_renders = 0,
                      !.final_video = <<"final_video.mp4">>,
                      !.video_url = video_url]

\* A summary that reports a failure when the video has no URL.
_create_summary_needs_url(animation_results, video_url) ==
    IF video_url = NoPath
    THEN [NoOutcome EXCEPT !.kind = "failed", !.error = "Cache upload failed"]
    ELSE [NoOutcome EXCEPT !.kind = "summary", !.success = TRUE,
                           !.total_scenes = Len(animation_results),
                           !.successful_renders = Len(VideoPathsOf(animation_results)),
                           !.failed_renders = Len(animation_results)
                                                - Len(VideoPathsOf(animation_results)),
                           !.final_video = <<"final_video.mp4">>,
                           !.video_url = video_url]

\* _create_summary(research_data, animation_results, final_video, video_url)
_create_summary(animation_results, video_url) ==
    LET successful == Len(SelectSeq(animation_results, LAMBDA vp : vp # None))
    IN  [NoOutcome EXCEPT !.kind = "summary", !.success = TRUE, !.cached = FALSE,
                          !.total_scenes = Len(animation_results),
                          !.successful_renders = successful,
                          !.failed_renders = Len(animation_results) - successful,
                          !.final_video = <<"final_video.mp4">>,
                          !.video_url = video_url]

\* A Step 5 that uploads the final video whether the cache is in use or not.
StoreAlways ==
    /\ pc = "store"
    /\ \E net \in UploadNets :
          LET up == upload_video(store, client, paper_identifier, net)
          IN  /\ store' = up.bucket
              /\ invoked' = invoked \cup {"upload"}
              /\ calls' = [calls EXCEPT !.upload = [success |-> up.success, url |-> up.url]]
              /\ Return(_create_summary(results, up.url))
    /\ UNCHANGED <<ident, seg, mcp, ca, client, prev, cfg, lookup, nscenes, worker, overtaken, results, exc,
                   video_paths, audio_paths, combined_paths, final_video>>

Store ==
    /\ pc = "store"
    /\ IF cfg.use_cache /\ final_video # NoVideo
       THEN \E net \in UploadNets :
               LET up == upload_video(store, client, paper_identifier, net)
               IN  /\ store' = up.bucket
                   /\ invoked' = invoked \cup {"upload"}
                   /\ calls' = [calls EXCEPT
                                   !.upload = [success |-> up.success, url |-> up.url]]
                   /\ Return(_create_summary(results, up.url))
       ELSE /\ Return(_create_summary(results, NoPath))
            /\ UNCHANGED <<store, invoked, calls>>
    /\ UNCHANGED <<ident, seg, mcp, ca, client, prev, cfg, lookup, nscenes, worker, overtaken, results, exc,
                   video_paths, audio_paths, combined_paths, final_video>>

\* --------------------------------------------------------- specifications
\* process_paper is called again on the same pipeline object.
NextCall ==
    /\ pc = "done"
    /\ prev' = [path |-> cfg.pdf_path, cached |-> outcome.cached,
                stored |-> outcome.kind = "summary" /\ outcome.video_url # NoPath]
    /\ pc' = "idle"
    /\ cfg' = NoCfg
    /\ lookup' = NoLookup
    /\ invoked' = {}
    /\ nscenes' = 0
    /\ worker' = <<>>
    /\ overtaken' = FALSE
    /\ results' = <<>>
    /\ exc' = ""
    /\ video_paths' = <<>>
    /\ audio_paths' = <<>>
    /\ combined_paths' = <<>>
    /\ final_video' = NoVideo
    /\ outcome' = NoOutcome
    /\ calls' = NoCalls
    /\ UNCHANGED <<ident, seg, mcp, ca, client, store>>

\* One call of process_paper, in either mode, on a bucket in any state.
Next ==
    \/ StartRun(BOOLEAN)
    \/ CheckCache
    \/ Extract(MaxScenes)
    \/ \E k \in 1..MaxScenes : GenStart(k)
    \/ \E k \in 1..MaxScenes : GenFinish(k)
    \/ GenSequential
    \/ GenJoin
    \/ \E k \in 1..MaxScenes : NarrStart(k)
    \/ \E k \in 1..MaxScenes : NarrFinish(k)
    \/ NarrSequential
    \/ NarrJoin
    \/ \E k \in 1..MaxScenes : CombStart(k)
    \/ \E k \in 1..MaxScenes : CombFinish(k)
    \/ CombSequential
    \/ CombJoin
    \/ Stitch
    \/ Store

Spec == Init /\ [][Next]_vars

\* Calls of process_paper one after another, in sequential mode, on a bucket
\* that starts empty.
InitCalls == client \in BOOLEAN /\ store = EmptyStore /\ RunInit

NextCalls ==
    \/ StartRun({FALSE})
    \/ CheckCache
    \/ Extract(CallScenes)
    \/ GenSequential
    \/ GenJoin
    \/ NarrSequential
    \/ NarrJoin
    \/ CombSequential
    \/ CombJoin
    \/ Stitch
    \/ Store
    \/ NextCall

SpecCalls == InitCalls /\ [][NextCalls]_vars

\* Names of papers: file names as process_paper gets them, identifiers as the
\* cache gets them.
Tokens == {"a", "A", " ", ".pdf", ".PDF", ".arxiv", ".abs", ".12345"}

\* A name begins with a letter.
Names == { name \in UNION { [1..n -> Tokens] : n \in 1..MaxName } : name[1] \in {"a", "A"} }

\* str.upper() on one token
Upper(tok) ==
    CASE tok = "a" -> "A"
      [] tok = "b" -> "B"
      [] tok = ".pdf" -> ".PDF"
      [] OTHER -> tok

\* The names that differ from name only in letter case, in a blank before or
\* after it, or in one trailing extension.
SurfaceVariants(name) ==
    { [k \in 1..Len(name) |-> Lower(name[k])], [k \in 1..Len(name) |-> Upper(name[k])],
      <<" ">> \o name, name \o <<" ">> }
    \cup { name \o <<e>> : e \in {".pdf", ".arxiv", ".abs"} }

\* Two names are given: as file names to process_paper, which hashes their
\* stems, and as identifiers to the cache.
DeriveIdentity ==
    /\ ident = NoIdent
    /\ \E name \in Names : \E other \in SurfaceVariants(name) :
          ident' = [st |-> "derived", name |-> name, other |-> other,
                    hash |-> PaperHash(name), other_hash |-> PaperHash(other),
                    key |-> _generate_paper_hash(name),
                    other_key |-> _generate_paper_hash(other)]
    /\ UNCHANGED <<calls, seg, mcp, ca, client, store, prev, pc, cfg, lookup, invoked,
                   nscenes, worker, overtaken, results, exc, video_paths, audio_paths,
                   combined_paths, final_video, outcome>>

InitIdentity == client = TRUE /\ store = EmptyStore /\ RunInit

NextIdentity == DeriveIdentity

SpecIdentity == InitIdentity /\ [][NextIdentity]_vars

\* ------------------------------------------------- composing one scene
Max(a, b) == IF a >= b THEN a ELSE b
Min(a, b) == IF a <= b THEN a ELSE b

\* end_pause taken as section_pause for every scene.
end_pause_configured(index, total_videos, section_pause) == section_pause

\* end_pause with the test off by one: the last scene is not told apart.
end_pause_off_by_one(index, total_videos, section_pause) ==
    IF index < total_videos THEN section_pause ELSE last_pause

\* combine_single: end_pause of scene index (counted from 0) of total_videos.
end_pause(index, total_videos, section_pause) ==
    IF index < total_videos - 1 THEN section_pause ELSE last_pause

\* _extend_video that re-encodes the clip and never holds a frame.
_extend_video_unheld(video_duration, target_duration) ==
    [how |-> "trim", duration |-> Min(video_duration, target_duration)]

\* _extend_video: tpad clones the last frame for hold_duration; when there is
\* nothing to hold, the clip is re-encoded with `-t target_duration`, which
\* stops the output at target_duration.
_extend_video(video_duration, target_duration) ==
    LET hold_duration == Max(0, target_duration - video_duration + hold_margin)
    IN  IF hold_duration > 0
        THEN [how |-> "hold", duration |-> video_duration + hold_duration]
        ELSE [how |-> "trim", duration |-> Min(video_duration, target_duration)]

\* _pad_audio_with_silence that adds no silence.
_pad_audio_unpadded(audio_duration, silence_duration) == audio_duration

\* _pad_audio_with_silence: apad appends silence_duration of silence.
_pad_audio_with_silence(audio_duration, silence_duration) ==
    audio_duration + silence_duration

\* combine_video_audio: the durations of the two temporary files and of the
\* two streams of the muxed segment (no -shortest: each stream keeps its own
\* length).
combine_video_audio(video_duration, audio_duration, add_end_pause) ==
    LET target_duration == audio_duration + add_end_pause
        extended == _extend_video(video_duration, target_duration)
        padded == _pad_audio_with_silence(audio_duration, add_end_pause)
    IN  [st |-> "combined", video_duration |-> video_duration,
         audio_duration |-> audio_duration, add_end_pause |-> add_end_pause,
         target_duration |-> target_duration, how |-> extended.how,
         extended |-> extended.duration, padded |-> padded,
         video_stream |-> extended.duration, audio_stream |-> padded]

\* combine_single(index) of compose_full_video, for one scene of total_videos;
\* an ffmpeg or ffprobe call that fails raises out of it.
CombineSingle ==
    /\ seg = NoSeg
    /\ \E total_videos \in 1..MaxScenes : \E index \in 0..(total_videos - 1) :
       \E section_pause \in 0..MaxPause : \E ends \in CombineEnds :
       \E video_duration \in 1..MaxDuration : \E audio_duration \in 1..MaxDuration :
          LET made == combine_video_audio(video_duration, audio_duration,
                          end_pause(index, total_videos, section_pause))
              scene == [index |-> index, total_videos |-> total_videos,
                        section_pause |-> section_pause]
          IN  seg' = IF ends = "raise"
                     THEN [st |-> "raised", scene |-> scene]
                     ELSE [made EXCEPT !.st = "combined"] @@ [scene |-> scene]
    /\ UNCHANGED <<ident, calls, mcp, ca, client, store, prev, pc, cfg, lookup, invoked,
                   nscenes, worker, overtaken, results, exc, video_paths, audio_paths,
                   combined_paths, final_video, outcome>>

InitCompose == client = TRUE /\ store = EmptyStore /\ RunInit

NextCompose == CombineSingle

SpecCompose == InitCompose /\ [][NextCompose]_vars

\* The two generate_animation loops, one oracle call a step.  The loops belong
\* to two objects that share no state: ClaudeAnimator's is run when
\* ClaudeMCPAnimator's has ended.
InitWorker == client = TRUE /\ store = EmptyStore /\ RunInit

NextWorker ==
    \/ McpToolUse
    \/ McpText
    \/ McpOracleRaises
    \/ (mcp.st # "loop" /\ CaAttempt)

SpecWorker == InitWorker /\ [][NextWorker]_vars

\* ------------------------------------------------------------ properties
\* The scenes of seq come in increasing scene order.
IncreasingScenes(seq) == \A i, j \in DOMAIN seq : i < j => seq[i] < seq[j]

\* The generation stage is over and every worker returned a result.
AllReturned ==
    /\ nscenes > 0
    /\ Len(results) = nscenes
    /\ \A k \in DOMAIN results : results[k] # NotSet
    /\ (pc = "generate" => StageOver(Len(results), nscenes))

Rendered == {k \in DOMAIN results : results[k] \notin {None, NotSet}}

LaterStageRaised ==
    /\ outcome.kind = "raised"
    /\ outcome.error \in {"generate_voiceover", "combine_video_audio", "stitch_videos"}

C3_Original ==
    \A k \in DOMAIN worker :
       (/\ cfg.concurrent_generation
        /\ pc = "generate" \/ outcome.error = "generate_animation"
        /\ AllEnded
        /\ worker[k] = "done")
       => results[k] # NotSet /\ outcome.kind # "raised"

\* Every render of the call failed: a render ran and none reported success.
McpRendersFailed == mcp.rendered /\ ~mcp.render_ok
CaRendersFailed == ca.rendered /\ ~ca.render_ok

\* C4 as stated: a worker whose every render fails returns after exactly the
\* configured number of attempts, 5 in ClaudeMCPAnimator and 3 in
\* ClaudeAnimator, with no clip.
C4_Original ==
    /\ (mcp.st = "returned" /\ McpRendersFailed)
          => mcp.iteration = max_iterations /\ mcp.video_path = None
    /\ (ca.st = "returned" /\ CaRendersFailed)
          => ca.attempt = max_retries /\ ca.video_path = None

\* C4: a worker whose every render fails never runs more than the configured
\* number of attempts and returns with no clip.  ClaudeAnimator returns after
\* exactly max_retries = 3 attempts.  ClaudeMCPAnimator returns after exactly
\* max_iterations = 5 oracle calls when every response is a tool request, and
\* earlier at the first response that requests no tool.
C4_BoundedRetry ==
    /\ mcp.iteration <= max_iterations
    /\ ca.attempt <= max_retries
    /\ (mcp.st = "loop" => mcp.iteration < max_iterations)
    /\ (ca.st = "loop" => ca.attempt < max_retries)
    /\ (mcp.st = "returned" /\ ~mcp.render_ok)
          => /\ mcp.video_path = None
             /\ mcp.iteration = max_iterations \/ mcp.last = "text"
    /\ (ca.st = "returned" /\ ~ca.render_ok)
          => ca.video_path = None /\ ca.attempt = max_retries

\* Both loops ran out of attempts with every render failing.
C4_Witness ==
    /\ mcp.st = "returned"
    /\ McpRendersFailed
    /\ mcp.last = "tool_use"
    /\ mcp.iteration = max_iterations
    /\ ca.st = "returned"
    /\ CaRendersFailed
    /\ ca.attempt = max_retries

\* The previous call and this one are for the same paper identity.
SameIdentity ==
    /\ prev.path # NoPath
    /\ cfg # NoCfg
    /\ PaperHash(prev.path) = PaperHash(cfg.pdf_path)

\* C5: after a call that generated and stored a video, the next call for the
\* same identity whose lookup meets no error is a hit: it returns cached = true
\* with the video's location and invokes no extraction, generation, narration
\* or composition.
C5_IdempotentCache ==
    (SameIdentity /\ prev.stored /\ cfg.use_cache /\ lookup.met = {})
    => /\ lookup.hit
       /\ pc = "done"
       /\ outcome.kind = "cached"
       /\ outcome.success /\ outcome.cached
       /\ outcome.video_url = _get_video_path(PaperHash(cfg.pdf_path))
       /\ outcome.final_video # NoPath
       /\ invoked = {"check_cache", "download"}

\* The second call names the paper differently, hashes to the same identity
\* and is served from the cache.
C5_Witness ==
    /\ SameIdentity
    /\ prev.stored
    /\ prev.path # cfg.pdf_path
    /\ pc = "done"
    /\ outcome.cached

\* C6: when every scene ends generation without a clip, the run returns a
\* failure, narration, composition, stitching and upload are never invoked,
\* there is no final video, and the bucket is left as it was.
C6_ZeroSuccess ==
    /\ [](AllReturned /\ Rendered = {}
            => /\ pc \in {"generate", "done"}
               /\ invoked \cap {"voiceover", "compose", "stitch", "upload"} = {}
               /\ final_video = NoVideo
               /\ (pc = "done" => /\ outcome.kind = "failed"
                                  /\ ~outcome.success
                                  /\ outcome.final_video = NoPath
                                  /\ outcome.video_url = NoPath))
    /\ [][AllReturned /\ Rendered = {} => store' = store]_vars

\* A run of two scenes or more that ended with no clip at all.
C6_Witness ==
    /\ pc = "done"
    /\ nscenes >= 2
    /\ AllReturned
    /\ Rendered = {}
    /\ outcome.kind = "failed"

\* C7: process_paper never lets an exception leave it: whatever a collaborator
\* does, the call ends with a result dict.
C7_Original == outcome.kind # "raised"

\* C8: in the summary total_scenes = successful_renders + failed_renders,
\* successful_renders is the number of scenes handed to the composer, and
\* failed_renders is positive exactly when some worker ended without a clip.
C8_Summary ==
    (pc = "done" /\ outcome.kind = "summary")
    => /\ outcome.total_scenes = nscenes
       /\ outcome.total_scenes = outcome.successful_renders + outcome.failed_renders
       /\ outcome.successful_renders = Len(video_paths)
       /\ outcome.successful_renders = Len(final_video.segments)
       /\ (outcome.failed_renders > 0 <=> \E k \in DOMAIN results : results[k] = None)

\* A summary that counts both rendered and failed scenes.
C8_Witness ==
    /\ pc = "done"
    /\ outcome.kind = "summary"
    /\ outcome.failed_renders > 0
    /\ outcome.successful_renders >= 2

\* C9: in the generation, narration and combine stages no more than max_workers
\* tasks are in flight at a time.
C9_WorkerBound ==
    pc \in {"generate", "narrate", "combine"} => Cardinality(Running) <= cfg.max_workers

\* A full combine pool with a task waiting for a thread.
C9_Witness ==
    /\ pc = "combine"
    /\ Cardinality(Running) = cfg.max_workers
    /\ Queued # {}

\* The errors a lookup can meet, the failed metadata download among them.
LookupErrors == {"no_client", "url_error", "head_error", "http_error", "not_200",
                 "meta_error"}

\* C10 as stated: a lookup that meets any error, the failed metadata download
\* included, reports no entry and the run goes on to regenerate.
C10_Original ==
    (lookup # NoLookup /\ lookup.met \cap LookupErrors # {})
    => ~lookup.hit /\ pc = "extract" /\ outcome = NoOutcome

\* C10: a lookup without a client, or whose public-URL call fails, or whose HEAD
\* request fails or answers with an HTTP error or a status other than 200,
\* reports no entry, raises nothing, and the run goes on to regenerate; a
\* failed metadata download alone leaves the lookup's answer as it is.
C10_LookupErrors ==
    /\ (lookup # NoLookup /\ lookup.met \cap (LookupErrors \ {"meta_error"}) # {})
          => ~lookup.hit /\ lookup.url = NoPath /\ pc = "extract" /\ outcome = NoOutcome
    /\ (lookup # NoLookup /\ lookup.met \subseteq {"meta_error"})
          => (lookup.hit <=> Object(store, _get_video_path(PaperHash(cfg.pdf_path))) # NoPath)

\* The video is in the bucket, the HEAD request fails, the run goes on.
C10_Witness ==
    /\ pc = "extract"
    /\ lookup.met = {"head_error"}
    /\ Object(store, _get_video_path(PaperHash(cfg.pdf_path))) # NoPath

\* C11: when upload_video fails, for want of a client or on an upload, metadata
\* or URL error, process_paper still returns success = true with the location
\* of the video it has just made; only the cached URL is missing.
C11_StoreFailureNonFatal ==
    (pc = "done" /\ "upload" \in invoked /\ ~calls.upload.success)
    => /\ outcome.kind = "summary"
       /\ outcome.success
       /\ ~outcome.cached
       /\ final_video # NoVideo
       /\ outcome.final_video = <<"final_video.mp4">>
       /\ outcome.video_url = NoPath

\* A run with a client whose upload failed.
C11_Witness ==
    /\ pc = "done"
    /\ client
    /\ "upload" \in invoked
    /\ ~calls.upload.success

\* The objects of bucket b stored for hash h.
Entries(b, h) == {o \in b : o.path[2] = h}

AllStored == [rm_video |-> TRUE, up_video |-> TRUE, rm_meta |-> TRUE, up_meta |-> TRUE,
              url |-> TRUE]

C14_SoftDownloadFailure ==
    (pc = "done" /\ outcome.kind = "cached")
    => /\ outcome.success /\ outcome.cached
       /\ outcome.video_url = _get_video_path(PaperHash(cfg.pdf_path))
       /\ (calls.local_cached = NoPath => outcome.final_video = outcome.video_url)
       /\ (calls.local_cached # NoPath =>
              /\ outcome.final_video = calls.local_cached
              /\ outcome.final_video = <<"cached", PaperHash(cfg.pdf_path)>>)

\* A hit whose download failed although the cache has a client.
C14_Witness ==
    /\ pc = "done"
    /\ outcome.kind = "cached"
    /\ calls.local_cached = NoPath

\* C13: two names that differ only in letter case, in surrounding whitespace
\* or in a trailing extension have the same identity hash, given to
\* process_paper as file names and given to the cache as identifiers.
C13_Original ==
    ident.st = "derived"
    => ident.hash = ident.other_hash /\ ident.key = ident.other_key

\* C15 as stated: the target of every scene is its narration plus the
\* configured pause.
C15_Original ==
    seg.st = "combined"
    => seg.target_duration = seg.audio_duration + seg.scene.section_pause

\* C15: the target of a scene is its narration plus the configured pause for
\* every scene but the last, and its narration plus 0.5 s for the last (or
\* only) scene, whatever the configured pause.
C15_TargetDuration ==
    seg.st = "combined"
    => /\ seg.scene.index < seg.scene.total_videos - 1
          => seg.target_duration = seg.audio_duration + seg.scene.section_pause
       /\ seg.scene.index = seg.scene.total_videos - 1
          => seg.target_duration = seg.audio_duration + last_pause

\* The first of three scenes, with a pause that is not the last scene's.
C15_Witness ==
    /\ seg.st = "combined"
    /\ seg.scene.index = 0 /\ seg.scene.total_videos = 3
    /\ seg.scene.section_pause = 2
    /\ seg.target_duration = seg.audio_duration + 2

\* C16 as stated: the extended clip is never shorter than the clip.
C16_Original == seg.st = "combined" => seg.extended >= seg.video_duration

\* C17: the video stream of a composed segment lasts at least as long as the
\* narration, whatever the clip, the narration and the pause (>= 0).
C17_NarrationNotCut ==
    seg.st = "combined" => seg.video_stream >= seg.audio_duration

\* A clip shorter than its narration was composed with no pause at all.
C17_Witness ==
    /\ seg.st = "combined"
    /\ seg.video_duration < seg.audio_duration
    /\ seg.scene.section_pause = 0 /\ seg.scene.index < seg.scene.total_videos - 1
    /\ seg.target_duration = seg.audio_duration

\* C18 as stated: the extended clip and the padded narration both last
\* exactly the target.
C18_Original ==
    seg.st = "combined"
    => seg.extended = seg.padded /\ seg.padded = seg.target_duration

\* C18: the padded narration lasts exactly the target, narration plus pause;
\* the extended clip lasts the target plus 0.1 s when its last frame is held
\* and exactly the target when it is cut to it, so it is never shorter than
\* the padded narration and never more than 0.1 s longer.
C18_StreamLengths ==
    seg.st = "combined"
    => /\ seg.padded = seg.target_duration
       /\ seg.target_duration = seg.audio_duration + seg.add_end_pause
       /\ seg.how = "hold" => seg.extended = seg.target_duration + hold_margin
       /\ seg.how = "trim" => seg.extended = seg.target_duration

\* A clip was held to its target with a pause after the narration.
C18_Witness ==
    /\ seg.st = "combined" /\ seg.how = "hold"
    /\ seg.add_end_pause > 0
    /\ seg.video_duration < seg.target_duration
    /\ seg.extended = seg.padded + hold_margin

\* C19: when the lossless concat of stitch_videos fails, the re-encoding
\* concat is run exactly once; the final video is produced when either of the
\* two succeeds; and the re-encoding concat is not run when the lossless one
\* succeeds.
C19_FallbackOnce ==
    "stitch" \in invoked
    => /\ (calls.tried # <<>> /\ calls.tried[1] = "concat_failed")
          => /\ Len(calls.tried) = 2
             /\ calls.tried[2] \in {"reencode_ok", "reencode_failed"}
       /\ (calls.tried # <<>> /\ calls.tried[1] = "concat_ok") => Len(calls.tried) = 1
       /\ (\E i \in DOMAIN calls.tried : calls.tried[i] \in {"concat_ok", "reencode_ok"})
          => /\ final_video # NoVideo
             /\ final_video.how \in {"concat", "reencode"}
             /\ outcome.kind # "raised"
       /\ calls.tried = <<"concat_failed", "reencode_failed">>
          => final_video = NoVideo /\ outcome.kind = "raised"

\* The lossless concat failed, the re-encoding one made the final video and
\* the run returned it.
C19_Witness ==
    /\ pc = "done"
    /\ calls.tried = <<"concat_failed", "reencode_ok">>
    /\ final_video.how = "reencode"
    /\ outcome.success

\* The composer was entered and the run ended without a final video.
CompositionFailed == pc = "done" /\ "compose" \in invoked /\ final_video = NoVideo

\* The run ended with the result of a run where no scene rendered.
NothingRendered == outcome.kind = "failed" /\ outcome.error = "Animation generation failed"

\* C20: a run whose composition fails, the re-encoding fallback having failed
\* too or not, ends with an error of the composer, which is never the
\* "nothing rendered" result of the generation stage; and that result is
\* given only when no scene rendered and the composer was not entered.
C20_CompositionError ==
    /\ CompositionFailed
       => /\ outcome.kind = "raised"
          /\ outcome.error \in {"ValueError", "combine_video_audio", "stitch_videos"}
          /\ ~NothingRendered
    /\ NothingRendered => "compose" \notin invoked /\ Rendered = {}

\* Both concats failed after every segment was combined.
C20_Witness ==
    /\ CompositionFailed
    /\ calls.tried = <<"concat_failed", "reencode_failed">>
    /\ outcome.kind = "raised" /\ outcome.error = "stitch_videos"

\* Every generation task has ended and left its result.
GenerationOver ==
    Len(results) = nscenes /\ \A k \in DOMAIN results : results[k] # NotSet

\* Every narration task has ended and left its track.
NarrationOver ==
    /\ Len(audio_paths) = Len(successful_scenes(results))
    /\ \A k \in DOMAIN audio_paths : audio_paths[k] # NotSet

\* C21: on a miss the stages follow one another: narration is entered only
\* when every generation task has ended with its result, composition only
\* when every narration task has ended, stitching only when every segment is
\* combined, and the cache store only when the final video exists.
C21_StageOrder ==
    /\ (pc \in {"narrate", "combine", "stitch", "store"}
        \/ invoked \cap {"voiceover", "compose", "stitch", "upload"} # {})
       => GenerationOver /\ "generate" \in invoked
    /\ (pc = "combine" \/ "compose" \in invoked)
       => NarrationOver /\ "voiceover" \in invoked
    /\ (pc = "stitch" \/ "stitch" \in invoked)
       => /\ \A k \in DOMAIN combined_paths : combined_paths[k] # NoSegment
          /\ cfg.include_voiceover => "compose" \in invoked
    /\ (pc = "store" \/ "upload" \in invoked)
       => final_video # NoVideo /\ "stitch" \in invoked

\* A concurrent run of two scenes or more went through the four stages, a
\* later scene having ended before an earlier one.
C21_Witness ==
    /\ pc = "done" /\ outcome.success /\ ~outcome.cached
    /\ cfg.concurrent_generation /\ nscenes >= 2 /\ overtaken
    /\ {"generate", "voiceover", "compose", "stitch", "upload"} \subseteq invoked

\* generate_animations_concurrent has returned its list to process_paper.
ConcurrentReturned ==
    /\ cfg.concurrent_generation
    /\ "generate" \in invoked
    /\ pc # "generate"
    /\ ~(outcome.kind = "raised" /\ outcome.error = "generate_animation")

\* While the pool runs a filled slot is the slot of an ended task; once the
\* list is returned every slot holds the result of its own scene.
C22_Slots ==
    /\ (pc = "generate" /\ cfg.concurrent_generation)
       => \A k \in DOMAIN results : results[k] # NotSet => worker[k] = "done"
    /\ ConcurrentReturned
       => /\ Len(results) = nscenes
          /\ \A k \in DOMAIN results : results[k] \in {None, k}

\* A slot is written only while it is empty, and only by its own task as
\* that task ends.
C22_SlotWrite ==
    (pc = "generate" /\ cfg.concurrent_generation)
    => \A k \in DOMAIN results :
          results'[k] # results[k]
          => results[k] = NotSet /\ worker[k] = "running" /\ worker'[k] = "done"

\* C22: generate_animations_concurrent returns exactly one result per scene:
\* every slot is written exactly once, by the task of its scene when that
\* task ends, and no slot is empty when the list is returned.
C22_OneResultPerScene == [](C22_Slots) /\ [][C22_SlotWrite]_vars

\* The list of three scenes was returned, with a clip and a failed result in
\* it, the tasks having ended out of order.
C22_Witness ==
    /\ ConcurrentReturned /\ pc = "narrate"
    /\ nscenes = 3 /\ overtaken
    /\ \E j, k \in DOMAIN results : results[j] = None /\ results[k] = k

\* C23 as stated: a worker returns a failed result, after a render of its own
\* failed, only when its attempts are used up.
C23_Original ==
    /\ (ca.st = "returned" /\ ca.video_path = None) => ca.attempt = max_retries
    /\ (mcp.st = "returned" /\ mcp.video_path = None /\ mcp.rendered)
          => mcp.iteration = max_iterations

\* C23: ClaudeAnimator returns a failed result only when its max_retries
\* attempts are used up.  ClaudeMCPAnimator returns a failed result when its
\* max_iterations oracle calls are used up, or earlier, at the first response
\* of the oracle that requests no tool.
C23_Promotion ==
    /\ (ca.st = "returned" /\ ca.video_path = None) => ca.attempt = max_retries
    /\ (mcp.st = "returned" /\ mcp.video_path = None)
          => mcp.iteration = max_iterations \/ mcp.last = "text"
    /\ (mcp.st = "returned" /\ mcp.last = "tool_use" /\ mcp.iteration < max_iterations)
          => mcp.video_path # None

\* ClaudeAnimator gave up after its last attempt; ClaudeMCPAnimator gave up
\* with attempts left, a render having failed and the oracle having answered
\* without a tool request.
C23_Witness ==
    /\ ca.st = "returned" /\ ca.video_path = None /\ ca.rendered
    /\ ca.attempt = max_retries
    /\ mcp.st = "returned" /\ mcp.video_path = None /\ mcp.rendered
    /\ mcp.last = "text" /\ mcp.iteration = 2

\* ClaudeAnimator: the prompt of the attempt that follows a failed render is
\* built from the code and the error of that render.
C24_CaRetry ==
    (ca.st = "loop" /\ ca.last_error # None /\ ca.last_error = ca.attempt
     /\ ca'.attempt = ca.attempt + 1)
    => /\ ca.code = ca.attempt
       /\ ca'.sent = [code |-> ca.attempt, error |-> ca.attempt]

\* C24 as stated: the request that follows a failed render carries the code
\* of that render and its error text, whole.
C24_Original ==
    [](mcp.prior # NoFailure => mcp.sent = mcp.prior) /\ [][C24_CaRetry]_vars

\* ClaudeMCPAnimator: the request that follows a failed render carries the
\* code of that render and its error text, cut to its first 2000 characters.
C24_McpRetry ==
    mcp.prior # NoFailure
    => /\ mcp.prior.code = mcp.iteration - 1
       /\ mcp.sent.code = mcp.prior.code
       /\ Len(mcp.prior.error) <= error_limit => mcp.sent.error = mcp.prior.error
       /\ Len(mcp.prior.error) > error_limit
          => mcp.sent.error = SubSeq(mcp.prior.error, 1, error_limit)

\* C24: on every retry after a failed or timed-out render the request to the
\* oracle carries the code of the attempt before and the error text of its
\* failure, whatever the attempts before did: the whole text in
\* ClaudeAnimator, and in ClaudeMCPAnimator the first 2000 characters of
\* manim's output or the whole message of a timeout.
C24_CorrectionRequest == [](C24_McpRetry) /\ [][C24_CaRetry]_vars

\* ClaudeMCPAnimator retried after a render whose output was longer than 2000
\* characters, and ClaudeAnimator made its third attempt after a failed second.
C24_Witness ==
    /\ mcp.iteration = 3
    /\ mcp.prior = [code |-> 2, error |-> <<"stderr", "more">>]
    /\ mcp.sent = [code |-> 2, error |-> <<"stderr">>]
    /\ ca.attempt = 3 /\ ca.sent = [code |-> 2, error |-> 2]

\* C25: two tasks that run at the same time in a stage write no path in
\* common: every path a task writes carries the task's own index.
C25_NoSharedPath ==
    \A j, k \in Running : j # k => Writes(j) \cap Writes(k) = {}

\* Two combine tasks run at the same time.
C25_Witness ==
    /\ pc = "combine" /\ Cardinality(Running) = 2
    /\ \A k \in Running : Writes(k) # {}

\* The research data had an "error" key or no scenes.
ExtractionFailed == calls.extracted \in {"error", "no_scenes"}

\* C26: when the extraction yields an error or no scenes the run ends there:
\* process_paper returns success = false with the extraction error, and no
\* generation task, narration task, composer call or cache store is made.
C26_ExtractionFatal ==
    ExtractionFailed
    => /\ pc = "done"
       /\ outcome.kind = "failed" /\ ~outcome.success
       /\ outcome.error = "Research extraction failed"
       /\ invoked \cap {"generate", "voiceover", "compose", "stitch", "upload"} = {}
       /\ nscenes = 0 /\ worker = <<>> /\ results = <<>>
       /\ final_video = NoVideo /\ calls.upload = NoCalls.upload

\* The research data came back without scenes on a run that uses the cache,
\* after a lookup that missed.
C26_Witness ==
    /\ calls.extracted = "no_scenes"
    /\ cfg.use_cache /\ "check_cache" \in invoked
    /\ outcome.error = "Research extraction failed"

\* The stages of process_paper in the order of its code.
StageRank ==
    CASE pc = "idle" -> 0
      [] pc = "check" -> 1
      [] pc = "extract" -> 2
      [] pc = "generate" -> 3
      [] pc = "narrate" -> 4
      [] pc = "combine" -> 5
      [] pc = "stitch" -> 6
      [] pc = "store" -> 7
      [] pc = "done" -> 8

\* One step of a run: a stage is never entered again; the one call of the
\* stitch and store stages ends the stage; a task that has ended is not
\* started again and a result once given is kept; a pool stage is left only
\* when each of its tasks has been started and has ended.
C27_Step ==
    /\ pc' # pc => StageRank' > StageRank
    /\ pc \in {"check", "extract", "stitch", "store"} => pc' # pc
    /\ (pc' = pc /\ pc \in {"generate", "narrate", "combine"})
       => /\ \A k \in DOMAIN worker :
                /\ worker[k] \in {"done", "raised"} => worker'[k] = worker[k]
                /\ worker[k] = "running" => worker'[k] # "queued"
          /\ Len(results') >= Len(results)
          /\ \A k \in DOMAIN results : results[k] # NotSet => results'[k] = results[k]
          /\ Len(audio_paths') >= Len(audio_paths)
    /\ (pc' # pc /\ pc \in {"generate", "narrate", "combine"} /\ worker # <<>>)
       => AllEnded
    /\ (pc = "generate" /\ pc' \notin {"generate", "done"}) => Len(results) = nscenes

\* C27: process_paper retries nothing: in one run a generation task is started
\* once for each scene and never again for a scene that failed, and the
\* narration, the composition and the cache store are each attempted at most
\* once.
C27_NoOrchestratorRetry == [][C27_Step]_vars

\* A run ended with a video although a scene had failed, each stage having
\* been gone through.
C27_Witness ==
    /\ pc = "done" /\ outcome.success /\ ~outcome.cached
    /\ nscenes >= 2
    /\ \E k \in DOMAIN results : results[k] = None
    /\ {"generate", "voiceover", "compose", "stitch", "upload"} \subseteq invoked
    /\ ~calls.upload.success

\* C28: given exactly one valid segment, stitch_videos makes the final video
\* of that segment as it is: no normalization, no concat command, no failure
\* of either.
C28_SingleSegment ==
    ("stitch" \in invoked /\ Len(combined_paths) = 1)
    => /\ final_video.how = "copy"
       /\ final_video.segments = combined_paths
       /\ ~calls.normalizing /\ ~final_video.normalizing
       /\ calls.tried = <<>>
       /\ outcome.kind # "raised"

\* Of three scenes one rendered, and its narrated segment became the final
\* video.
C28_Witness ==
    /\ pc = "done" /\ outcome.success
    /\ nscenes = 3 /\ Len(combined_paths) = 1
    /\ cfg.include_voiceover
    /\ final_video.how = "copy"

\* What a worker has recorded of its artifact and clip, and where it stands.
Recorded(w) ==
    [st |-> w.st, final_code |-> w.final_code, video_path |-> w.video_path,
     rendered |-> w.rendered, render_ok |-> w.render_ok, failure |-> w.failure]

ValidateLists ==
    UNION { [1..n -> {"validate_passed", "validate_issues", "validate_syntax_error"}] :
               n \in 1..MaxBlocks }

\* C29: a validate_manim call, whatever it reports, does not end the worker,
\* leaves the recorded code and clip as they were, and a render_manim call
\* after it is run and recorded as without it.
C29_ValidationAdvisory ==
    /\ mcp.st = "loop" => \A blocks \in ValidateLists :
          LET it == mcp.iteration + 1
              w == RunBlocks(mcp, blocks, it)
          IN  /\ Recorded(w) = Recorded(mcp)
              /\ Recorded(ExecuteBlock(w, "render_video", it))
                    = Recorded(ExecuteBlock(mcp, "render_video", it))
              /\ Recorded(ExecuteBlock(w, "render_failed", it))
                    = Recorded(ExecuteBlock(mcp, "render_failed", it))
    /\ (mcp.warned /\ mcp.st = "returned" /\ mcp.last = "tool_use"
        /\ mcp.video_path = None) => mcp.iteration = max_iterations
    /\ mcp.after_warning => mcp.warned /\ mcp.rendered

\* A worker rendered its clip, in its second iteration, after a validate call
\* of its had reported issues.
C29_Witness ==
    /\ mcp.st = "returned" /\ mcp.warned /\ mcp.after_warning
    /\ mcp.iteration = 2 /\ mcp.video_path = 2 /\ mcp.final_code = 2

\* C30: in compose_full_video with n scenes the end pause of scene i is
\* section_pause for i < n-1 and 0.5 s for i = n-1, and the target of the
\* scene is its narration plus that pause; a video of one scene gets the
\* 0.5 s only.
C30_EndPause ==
    seg.st = "combined"
    => LET i == seg.scene.index
           n == seg.scene.total_videos
       IN  /\ i < n - 1 => seg.add_end_pause = seg.scene.section_pause
           /\ i = n - 1 => seg.add_end_pause = last_pause
           /\ n = 1 => seg.add_end_pause = last_pause
           /\ seg.target_duration = seg.audio_duration + seg.add_end_pause
           /\ seg.padded = seg.target_duration

\* The only scene of a video was combined, with a configured pause that is
\* not 0.5 s.
C30_Witness ==
    /\ seg.st = "combined"
    /\ seg.scene.total_videos = 1 /\ seg.scene.index = 0
    /\ seg.scene.section_pause = 2
    /\ seg.add_end_pause = last_pause

\* C31: the narration stage works on the scenes with a clip only: it has one
\* task per clip, every track it collects is the track of a scene whose
\* generation gave a clip, no scene is narrated twice, and when the stage has
\* handed over to compose_full_video the audio list names the same scenes in
\* the same order as the clip list.
C31_NarratedScenes ==
    /\ \A k \in DOMAIN audio_paths :
          audio_paths[k] # NotSet
             => /\ audio_paths[k] \in Rendered
                /\ audio_paths[k] = video_paths[k]
                /\ \A j \in DOMAIN audio_paths : j # k => audio_paths[j] # audio_paths[k]
    /\ (pc = "narrate" => /\ Len(audio_paths) <= Len(video_paths)
                          /\ (worker # <<>> => Len(worker) = Cardinality(Rendered)))
    /\ ("compose" \in invoked
           => /\ audio_paths = video_paths
              /\ {audio_paths[k] : k \in DOMAIN audio_paths} = Rendered)

\* A narrated three-scene run in which scene 2 has no clip and scenes 1 and 3
\* were narrated by the pool, the later one first.
C31_Witness ==
    /\ "compose" \in invoked
    /\ cfg.concurrent_generation
    /\ overtaken
    /\ results = <<1, None, 3>>
    /\ audio_paths = <<1, 3>>

\* A step of ClaudeAnimator's loop whose oracle response holds no code.
CaNoCodeStep ==
    /\ ca.st = "loop"
    /\ ca'.attempt = ca.attempt + 1
    /\ ca'.st # "raised"
    /\ ca'.code = None

\* A step of ClaudeMCPAnimator's loop whose oracle response requests no tool
\* and holds no code block.
McpNoCodeStep ==
    /\ mcp.st = "loop"
    /\ mcp'.iteration = mcp.iteration + 1
    /\ mcp'.last = "text"
    /\ mcp'.final_code # mcp'.iteration

\* ClaudeAnimator: a response without code uses up one attempt, renders
\* nothing, and the loop goes on unless that was the last attempt.
C32_CaNoCode ==
    CaNoCodeStep
    => /\ ca'.video_path = ca.video_path
       /\ ca'.last_error = ca.last_error
       /\ ca'.rendered = ca.rendered /\ ca'.render_ok = ca.render_ok
       /\ ca'.st = IF ca'.attempt >= max_retries THEN "returned" ELSE "loop"

\* The render tool is not run in the step.
McpNoRender ==
    /\ mcp'.video_path = mcp.video_path
    /\ mcp'.rendered = mcp.rendered /\ mcp'.render_ok = mcp.render_ok
    /\ mcp'.final_code = mcp.final_code

\* C32 as stated: in either worker a response without an artifact is one failed
\* attempt, after which the worker makes its next attempt if one remains.
C32_Original ==
    [][/\ C32_CaNoCode
       /\ McpNoCodeStep
          => /\ McpNoRender
             /\ mcp'.st = IF mcp'.iteration >= max_iterations THEN "returned" ELSE "loop"]_vars

\* C32: an oracle response without code is one attempt of ClaudeAnimator, for
\* which nothing is rendered and after which the next attempt is made if one
\* remains.  In ClaudeMCPAnimator a response that requests no tool and holds
\* no code block uses up one iteration and renders nothing, but it ends the
\* loop: the worker returns with the iterations that remain unused.
C32_NoArtifact ==
    [][/\ C32_CaNoCode
       /\ McpNoCodeStep => McpNoRender /\ mcp'.st = "returned"]_vars

\* ClaudeAnimator is in its loop after a second attempt that gave no code;
\* ClaudeMCPAnimator has returned at its second iteration on a response
\* without a tool request and without code, three iterations unused.
C32_Witness ==
    /\ ca.st = "loop" /\ ca.attempt = 2 /\ ca.code = None /\ ca.video_path = None
    /\ mcp.st = "returned" /\ mcp.last = "text" /\ mcp.iteration = 2
    /\ mcp.final_code = None /\ mcp.video_path = None

\* The scenes whose result names a clip file.
WithClip == {k \in DOMAIN calls.clips : calls.clips[k] \notin {None, NotSet}}

\* C33 as stated: the clip path in scene k's result names a file written by
\* scene k's own render, never a file of another scene, and no two results
\* name the same file.
C33_OwnClip ==
    \A k \in WithClip :
       /\ calls.clips[k] = k
       /\ \A j \in WithClip : j # k => calls.clips[j] # calls.clips[k]

\* The upload_video call of the run has returned (False, None).
UploadFailedStep ==
    /\ pc = "store" /\ pc' = "done"
    /\ "upload" \in invoked'
    /\ ~calls'.upload.success

\* What check_cache finds in bucket b for the paper of the run when the
\* network is up.
Lookup(b) == check_cache(b, client, paper_identifier, "ok", TRUE)

\* The video stored in bucket b for the paper of the run.
StoredVideo(b) == Object(b, _get_video_path(_generate_paper_hash(paper_identifier)))

\* C34 as stated: when upload_video fails for a paper that had a cached video,
\* a lookup after the call still hits and the video stored is the one that was
\* stored before the call.
C34_FailedPutKeepsCache ==
    [][(UploadFailedStep /\ Lookup(store).hit)
          => /\ Lookup(store').hit
             /\ StoredVideo(store') = StoredVideo(store)]_vars

\* The run's upload_video call returns.
UploadStep == pc = "store" /\ pc' = "done" /\ "upload" \in invoked'

\* C35 as stated: whenever a lookup hits and has metadata, the metadata was
\* written by the upload_video call that wrote the stored video; and an
\* upload_video call returns success exactly when the video it was given is
\* the one stored after it.
C35_EntryConsistent ==
    /\ []((Lookup(store).hit /\ Lookup(store).meta # NoPath)
             => Lookup(store).meta = StoredVideo(store))
    /\ [][UploadStep
             => (calls'.upload.success <=> StoredVideo(store') = paper_identifier)]_vars

\* A step that calls upload_video or changes the bucket.
CacheWriteStep == store' # store \/ ("upload" \in invoked' /\ "upload" \notin invoked)

\* C36: the cache is written by upload_video only, and upload_video is called
\* only by a run in which a scene has a clip and the final video exists; a run
\* that ends in an extraction failure, without any clip or on a cache hit has
\* not called upload_video and has left the bucket as it was.
C36_WrittenWithFinalVideo ==
    /\ []((pc = "done" /\ (ExtractionFailed \/ NothingRendered \/ outcome.kind = "cached"))
             => "upload" \notin invoked)
    /\ [][CacheWriteStep
             => /\ pc = "store" /\ "upload" \in invoked'
                /\ Rendered # {}
                /\ video_paths # <<>>
                /\ final_video # NoVideo /\ final_video.segments # <<>>]_vars

\* A run with the cache in use in which scene 1 had no clip and scene 2 had
\* one: the final video was uploaded and the summary carries its URL.
C36_Witness ==
    /\ pc = "done"
    /\ cfg.use_cache
    /\ results = <<None, 2>>
    /\ "upload" \in invoked
    /\ calls.upload.success
    /\ outcome.kind = "summary" /\ outcome.video_url # NoPath
    /\ StoredVideo(store) = paper_identifier

\* A run without the cache is under way or over.
UncachedRun == pc # "idle" /\ ~cfg.use_cache

\* C37: a run with use_cache = False makes no lookup, no download and no
\* upload and leaves the bucket as it is; it goes to the analysis of the paper
\* whatever the bucket holds, and its result is never a cached one and never
\* carries a video URL.
C37_CacheOff ==
    /\ [](UncachedRun
            => /\ invoked \cap {"check_cache", "download", "upload"} = {}
               /\ lookup = NoLookup
               /\ calls.local_cached = NoPath /\ calls.upload = NoCalls.upload
               /\ outcome.kind # "cached" /\ ~outcome.cached
               /\ outcome.video_url = NoPath
               /\ (pc \notin {"check", "extract"} => "analyze_paper" \in invoked))
    /\ [][UncachedRun => store' = store]_vars

\* A run without the cache on a bucket that holds a video of its paper: the
\* video was generated again, the summary has no URL and the bucket still
\* holds the earlier video.
C37_Witness ==
    /\ pc = "done"
    /\ ~cfg.use_cache
    /\ client
    /\ StoredVideo(store) = <<"earlier">>
    /\ Lookup(store).hit
    /\ outcome.kind = "summary" /\ outcome.success
    /\ outcome.video_url = NoPath
    /\ final_video # NoVideo

\* How the worker of scene k ended, read from its result.
EndOf(k) == IF results[k] = None THEN "no_clip" ELSE "clip"

\* The result the sequential loop of process_paper leaves for scene k when the
\* worker ends that way: no other render is running when it looks for its
\* clip, so the file is the scene's own.
SequentialResult(k) == [video_path |-> VideoPath(k, EndOf(k)), file |-> ClipFile(EndOf(k), k)]

\* C38 as stated: in either mode, with any max_workers and any completion
\* order, the result of scene k is the one the sequential loop gives for the
\* same worker outcome, the narration tracks are those of the scenes with a
\* clip in scene order, and the composed segments follow the clip list.
C38_ModesEquivalent ==
    /\ \A k \in DOMAIN calls.clips :
          results[k] # NotSet
             => [video_path |-> results[k], file |-> calls.clips[k]] = SequentialResult(k)
    /\ \A k \in DOMAIN audio_paths :
          audio_paths[k] # NotSet => audio_paths[k] = successful_scenes(results)[k]
    /\ \A k \in DOMAIN combined_paths :
          combined_paths[k] # NoSegment
             => combined_paths[k].video = successful_scenes(results)[k]
    /\ final_video # NoVideo
          => Len(final_video.segments) = Len(successful_scenes(results))

\* C39 as stated: the normalization of _generate_paper_hash is idempotent: an
\* identifier and its normalized form have the same cache key, also when the
\* identifier ends in several suffixes.
C39_Idempotent ==
    ident.st = "derived"
    => /\ _generate_paper_hash(ident.key) = ident.key
       /\ _generate_paper_hash(ident.other_key) = ident.other_key

====
